---- MODULE Spec2Model ----
(***************************************************************************)
(* The tree-walking evaluator of the Swahili scripting language            *)
(* (bin/interpreter/interpreter.js with its function value classes), as a  *)
(* small-step machine.  Every visitor of the Interpreter class is one      *)
(* action; a visitor's recursive call of visit() pushes a frame, its       *)
(* return pops one and leaves the RTResult in the register `ret`.          *)
(***************************************************************************)
EXTENDS Integers, Sequences, FiniteSets, TLC

\* The iteration cap of one loop activation.  The source sets 10000
\* (Interpreter constructor); the model runs the same code with a small cap.
maxCallStackSize == 4

\* Largest number literal the generated loop programs use.
MaxNum == 5

VARIABLES
  prog,     \* the program under evaluation: template id and its literals
  stack,    \* activation frames of visit()/execute(), innermost last
  ret,      \* the RTResult returned by the frame that finished last
  ctxs,     \* every Context created so far, each with its own SymbolTable
  out,      \* what andika has written
  status,   \* "running", "done" (visit of the root returned), "threw"
  writes    \* history: every SymbolTable.set so far, oldest first

vars == <<prog, stack, ret, ctxs, out, status, writes>>

-----------------------------------------------------------------------------
(* Values.  One record shape for every variant; `pos` is the node whose    *)
(* posStart/posEnd the value carries, `ctx` the Context it refers to       *)
(* (0 = null).  NoneV is the host's null, which is not an SWValue.         *)

Val(kind, num, elems, fn, name, pos, c) ==
  [kind |-> kind, num |-> num, elems |-> elems, fn |-> fn, name |-> name,
   pos |-> pos, ctx |-> c]

NoneV == Val("None", 0, <<>>, 0, "", 0, 0)

\* new SWValue(): a value of the base class.
SWValue == Val("Value", 0, <<>>, 0, "", 0, 0)

SWNumber(n) == Val("Number", n, <<>>, 0, "", 0, 0)

SWBoolean(b) == Val("Boolean", IF b THEN 1 ELSE 0, <<>>, 0, "", 0, 0)

SWNull == Val("Null", 0, <<>>, 0, "", 0, 0)

SWList(elements) == Val("List", 0, elements, 0, "", 0, 0)

AnonName == "<isiyotambuliwa>"

SWFunction(name, fnNode) ==
  Val("Function", 0, <<>>, fnNode, IF name = "" THEN AnonName ELSE name, 0, 0)

SWBuiltInFunction(name) == Val("BuiltIn", 0, <<>>, 0, name, 0, 0)

setPosition(v, p) == [v EXCEPT !.pos = p]

setContext(v, c) == [v EXCEPT !.ctx = c]

IsFunctionValue(v) == v.kind \in {"Function", "BuiltIn"}

\* What a value holds, without where it was stamped.
RECURSIVE Payload(_)
Payload(v) ==
  [kind |-> v.kind, num |-> v.num, fn |-> v.fn, name |-> v.name,
   elems |-> [k \in 1..Len(v.elems) |-> Payload(v.elems[k])]]

copy(v) ==
  CASE v.kind = "Function" ->
         setContext(setPosition(SWFunction(v.name, v.fn), v.pos), v.ctx)
    [] v.kind = "BuiltIn" ->
         setContext(setPosition(SWBuiltInFunction(v.name), v.pos), v.ctx)
    [] OTHER -> Val(v.kind, v.num, v.elems, v.fn, v.name, v.pos, v.ctx)

-----------------------------------------------------------------------------
(* Errors and results.                                                     *)

RTError(pos, endPos, msg, arg, n, c) ==
  [msg |-> msg, arg |-> arg, n |-> n, pos |-> pos, endPos |-> endPos, ctx |-> c]

NoErr == RTError(0, 0, "", "", 0, 0)

success(v) == [value |-> v, error |-> NoErr]

failure(e) == [value |-> NoneV, error |-> e]

NoRes == success(NoneV)

IsErr(r) == r.error # NoErr

illegalOperation(this, other) ==
  RTError(this.pos, IF other.kind = "None" THEN this.pos ELSE other.pos,
          "Illegal operation", "", 0, this.ctx)

-----------------------------------------------------------------------------
(* The operations of a value.  SWValue (types/value.js) is the base class: *)
(* the function classes override none of its operators, so for a function  *)
(* value these definitions are the code.  The operator tables of Number,   *)
(* Boolean, List and Null follow section 4.1 of the specification.         *)

OpRes(v, e) == [value |-> v, error |-> e, threw |-> FALSE]

OpThrow == [value |-> NoneV, error |-> NoErr, threw |-> TRUE]

SWValue_op(this, other) == OpRes(NoneV, illegalOperation(this, other))

\* notted() reads the undeclared name `other`: a ReferenceError of the host.
SWValue_notted(this) == OpThrow

SWValue_isTrue(this) == FALSE

SWValue_execute(this) == failure(illegalOperation(this, NoneV))

isTrue(v) ==
  CASE v.kind = "Number" -> v.num # 0
    [] v.kind = "Boolean" -> v.num = 1
    [] v.kind = "List" -> Len(v.elems) > 0
    [] v.kind = "Null" -> FALSE
    [] OTHER -> SWValue_isTrue(v)

addedTo(l, r) ==
  CASE l.kind = "Number" /\ r.kind = "Number" ->
         OpRes(setContext(SWNumber(l.num + r.num), l.ctx), NoErr)
    [] l.kind = "List" /\ r.kind # "None" ->
         OpRes(setContext(SWList(Append(l.elems, r)), l.ctx), NoErr)
    [] OTHER -> SWValue_op(l, r)

multedBy(l, r) ==
  CASE l.kind = "Number" /\ r.kind = "Number" ->
         OpRes(setContext(SWNumber(l.num * r.num), l.ctx), NoErr)
    [] OTHER -> SWValue_op(l, r)

getComparisonLT(l, r) ==
  CASE l.kind = "Number" /\ r.kind = "Number" ->
         OpRes(setContext(SWBoolean(l.num < r.num), l.ctx), NoErr)
    [] OTHER -> SWValue_op(l, r)

andedBy(l, r) ==
  CASE IsFunctionValue(l) -> SWValue_op(l, r)
    [] r.kind = "None" -> OpThrow
    [] OTHER -> OpRes(setContext(SWBoolean(isTrue(l) /\ isTrue(r)), l.ctx), NoErr)

oredBy(l, r) ==
  CASE IsFunctionValue(l) -> SWValue_op(l, r)
    [] r.kind = "None" -> OpThrow
    [] OTHER -> OpRes(setContext(SWBoolean(isTrue(l) \/ isTrue(r)), l.ctx), NoErr)

notted(v) ==
  CASE IsFunctionValue(v) -> SWValue_notted(v)
    [] OTHER -> OpRes(setContext(SWBoolean(~isTrue(v)), v.ctx), NoErr)

-----------------------------------------------------------------------------
(* AST nodes, as the parser hands them over: a table of nodes, children    *)
(* named by their index.  Node 1 is the root.  A node's position is its    *)
(* index.  opt = 0 and name = "" stand for an absent child or token.       *)

Node(type, name, num, op, kids, opt, params) ==
  [type |-> type, name |-> name, num |-> num, op |-> op, kids |-> kids,
   opt |-> opt, params |-> params]

NumberNode(n) == Node("NumberNode", "", n, "", <<>>, 0, <<>>)
ListNode(elementNodes) == Node("ListNode", "", 0, "", elementNodes, 0, <<>>)
VarAccessNode(name) == Node("VarAccessNode", name, 0, "", <<>>, 0, <<>>)
VarAssignNode(name, valueNode) ==
  Node("VarAssignNode", name, 0, "", <<valueNode>>, 0, <<>>)
BinOpNode(leftNode, op, rightNode) ==
  Node("BinOpNode", "", 0, op, <<leftNode, rightNode>>, 0, <<>>)
UnaryOpNode(op, operand) == Node("UnaryOpNode", "", 0, op, <<operand>>, 0, <<>>)
\* cases = <<condition1, body1, condition2, body2, ...>>
IfNode(cases, elseCase) == Node("IfNode", "", 0, "", cases, elseCase, <<>>)
ForNode(name, startNode, endNode, stepNode, bodyNode) ==
  Node("ForNode", name, 0, "", <<startNode, endNode, bodyNode>>, stepNode, <<>>)
WhileNode(conditionNode, bodyNode) ==
  Node("WhileNode", "", 0, "", <<conditionNode, bodyNode>>, 0, <<>>)
FuncDefNode(name, argNames, bodyNode) ==
  Node("FuncDefNode", name, 0, "", <<bodyNode>>, 0, argNames)
CallNode(nodeToCall, argNodes) ==
  Node("CallNode", "", 0, "", <<nodeToCall>> \o argNodes, 0, <<>>)

-----------------------------------------------------------------------------
(* The programs evaluated: templates with number literals a, b, c.         *)

\* shughuli gen(n) { shughuli add(x) { x + n } } ; gen(a)(b)
ClosureProg(a, b) == <<
  ListNode(<<2, 7>>),
  FuncDefNode("gen", <<"n">>, 3),
  FuncDefNode("add", <<"x">>, 4),
  BinOpNode(5, "PLUS", 6),
  VarAccessNode("x"),
  VarAccessNode("n"),
  CallNode(8, <<11>>),
  CallNode(9, <<10>>),
  VarAccessNode("gen"),
  NumberNode(a),
  NumberNode(b) >>

\* shughuli f() { y } ; shughuli g(y) { f() } ; g(a)
DynScopeProg(a) == <<
  ListNode(<<2, 4, 7>>),
  FuncDefNode("f", <<>>, 3),
  VarAccessNode("y"),
  FuncDefNode("g", <<"y">>, 5),
  CallNode(6, <<>>),
  VarAccessNode("f"),
  CallNode(8, <<9>>),
  VarAccessNode("g"),
  NumberNode(a) >>

\* shughuli f(p, q) { p + q } ; f(1, 2, 3) cut to its first a arguments
ArityProg(a) == <<
  ListNode(<<2, 6>>),
  FuncDefNode("f", <<"p", "q">>, 3),
  BinOpNode(4, "PLUS", 5),
  VarAccessNode("p"),
  VarAccessNode("q"),
  CallNode(7, SubSeq(<<8, 9, 10>>, 1, a)),
  VarAccessNode("f"),
  NumberNode(1),
  NumberNode(2),
  NumberNode(3) >>

BuiltInNames == <<"andika", "futa", "niNambari">>

\* andika / futa / niNambari called with a arguments
BuiltInArityProg(a, b) == <<
  CallNode(2, SubSeq(<<3, 4>>, 1, a)),
  VarAccessNode(BuiltInNames[b]),
  NumberNode(7),
  NumberNode(8) >>

\* wakati kweli { 1 }
WhileTrueProg == <<
  WhileNode(2, 3),
  VarAccessNode("kweli"),
  NumberNode(1) >>

\* x = 0 ; wakati x < a { x = x + 1 }
WhileCountProg(a) == <<
  ListNode(<<2, 4>>),
  VarAssignNode("x", 3),
  NumberNode(0),
  WhileNode(5, 8),
  BinOpNode(6, "LT", 7),
  VarAccessNode("x"),
  NumberNode(a),
  VarAssignNode("x", 9),
  BinOpNode(10, "PLUS", 11),
  VarAccessNode("x"),
  NumberNode(1) >>

\* kwa i = a mpaka b hatua c { i }
ForProg(a, b, c) == <<
  ForNode("i", 2, 3, 5, 4),
  NumberNode(a),
  NumberNode(b),
  VarAccessNode("i"),
  NumberNode(c) >>

\* kwa i = a mpaka b { i }
ForDefaultProg(a, b) == <<
  ForNode("i", 2, 3, 0, 4),
  NumberNode(a),
  NumberNode(b),
  VarAccessNode("i") >>

\* One construct with the unbound name `undef` as one of its sub-nodes,
\* followed by z = 1.  ErrorRoots lists the constructs.
ErrorRoots == <<11, 12, 13, 14, 15, 16, 17, 18, 19, 20, 21, 22, 23, 24, 25, 26, 31>>

ErrorProg(a) == <<
  (* 1*) ListNode(<<ErrorRoots[a], 2>>),
  (* 2*) VarAssignNode("z", 3),
  (* 3*) NumberNode(1),
  (* 4*) VarAccessNode("undef"),
  (* 5*) VarAssignNode("x", 6),
  (* 6*) NumberNode(1),
  (* 7*) VarAccessNode("kweli"),
  (* 8*) VarAccessNode("uwongo"),
  (* 9*) NumberNode(0),
  (*10*) NumberNode(2),
  (*11*) ListNode(<<4, 5>>),
  (*12*) VarAssignNode("x", 4),
  (*13*) BinOpNode(4, "PLUS", 5),
  (*14*) BinOpNode(6, "PLUS", 4),
  (*15*) IfNode(<<4, 5>>, 0),
  (*16*) IfNode(<<7, 4>>, 5),
  (*17*) IfNode(<<8, 6>>, 4),
  (*18*) ForNode("i", 4, 5, 0, 5),
  (*19*) ForNode("i", 9, 4, 0, 5),
  (*20*) ForNode("i", 9, 10, 4, 5),
  (*21*) ForNode("i", 9, 10, 0, 4),
  (*22*) WhileNode(4, 5),
  (*23*) WhileNode(7, 4),
  (*24*) CallNode(4, <<5>>),
  (*25*) CallNode(27, <<4, 5>>),
  (*26*) ListNode(<<28, 29>>),
  (*27*) VarAccessNode("andika"),
  (*28*) FuncDefNode("f", <<>>, 4),
  (*29*) CallNode(30, <<>>),
  (*30*) VarAccessNode("f"),
  (*31*) UnaryOpNode("MINUS", 4) >>

BinOps == <<"AND", "OR", "PLUS", "LT">>

\* (x = a) op (y = b)
BinOpProg(a, b, c) == <<
  BinOpNode(2, BinOps[c], 3),
  VarAssignNode("x", 4),
  VarAssignNode("y", 5),
  NumberNode(a),
  NumberNode(b) >>

\* kama (p = a) { x = 1 } au kama (q = b) { x = 2 } sivyo { x = 3 }
\* (c = 0: without the sivyo part)
IfProg(a, b, c) == <<
  IfNode(<<2, 4, 3, 5>>, IF c = 0 THEN 0 ELSE 6),
  VarAssignNode("p", 7),
  VarAssignNode("q", 8),
  VarAssignNode("x", 9),
  VarAssignNode("x", 10),
  VarAssignNode("x", 11),
  NumberNode(a),
  NumberNode(b),
  NumberNode(1),
  NumberNode(2),
  NumberNode(3) >>

\* x = kama uwongo { 1 } ; x
IfNullProg == <<
  ListNode(<<2, 6>>),
  VarAssignNode("x", 3),
  IfNode(<<4, 5>>, 0),
  VarAccessNode("uwongo"),
  NumberNode(1),
  VarAccessNode("x") >>

\* x = a ; <something that binds x again> ; x
\*   b = 1: kwa x = 0 mpaka 2 { 0 }       b = 2: shughuli x() { 0 }
\*   b = 3: shughuli f() { x = 9 } ; f()  b = 4: x = x + 1
RebindRoots == <<4, 8, 9, 14>>

RebindProg(a, b) == <<
  (* 1*) ListNode(<<2, RebindRoots[b], 17>>),
  (* 2*) VarAssignNode("x", 3),
  (* 3*) NumberNode(a),
  (* 4*) ForNode("x", 5, 6, 0, 5),
  (* 5*) NumberNode(0),
  (* 6*) NumberNode(2),
  (* 7*) NumberNode(9),
  (* 8*) FuncDefNode("x", <<>>, 5),
  (* 9*) ListNode(<<10, 12>>),
  (*10*) FuncDefNode("f", <<>>, 11),
  (*11*) VarAssignNode("x", 7),
  (*12*) CallNode(13, <<>>),
  (*13*) VarAccessNode("f"),
  (*14*) VarAssignNode("x", 15),
  (*15*) BinOpNode(17, "PLUS", 16),
  (*16*) NumberNode(1),
  (*17*) VarAccessNode("x") >>

UnaryOps == <<"MINUS", "NOT">>

\* -a  or  !a
UnaryProg(a, b) == <<
  UnaryOpNode(UnaryOps[b], 2),
  NumberNode(a) >>

\* shughuli f(p) { __hoja } ; f(a)
HojaProg(a) == <<
  ListNode(<<2, 4>>),
  FuncDefNode("f", <<"p">>, 3),
  VarAccessNode("__hoja"),
  CallNode(5, <<6>>),
  VarAccessNode("f"),
  NumberNode(a) >>

\* Two loops, the one with end b started before the one with end a:
\*   1  kwa i = 0 mpaka b { kwa j = 0 mpaka a { 1 } }
\*   2  [ kwa i = 0 mpaka b { 1 }, kwa j = 0 mpaka a { 1 } ]
\*   3  shughuli f() { kwa j = 0 mpaka a { 1 } } ; kwa i = 0 mpaka b { f() }
\*   4  kwa i = 0 mpaka b { [ y = 0, wakati y < a { y = y + 1 } ] }
\*   5  x = 0 ; wakati x < b { [ x = x + 1, kwa j = 0 mpaka a { 1 } ] }
NestShapes == 1..5

NestProg(a, b, c) ==
  CASE c = 1 -> <<
         ForNode("i", 2, 3, 0, 4),
         NumberNode(0),
         NumberNode(b),
         ForNode("j", 5, 6, 0, 7),
         NumberNode(0),
         NumberNode(a),
         NumberNode(1) >>
    [] c = 2 -> <<
         ListNode(<<2, 6>>),
         ForNode("i", 3, 4, 0, 5),
         NumberNode(0),
         NumberNode(b),
         NumberNode(1),
         ForNode("j", 7, 8, 0, 9),
         NumberNode(0),
         NumberNode(a),
         NumberNode(1) >>
    [] c = 3 -> <<
         ListNode(<<2, 7>>),
         FuncDefNode("f", <<>>, 3),
         ForNode("j", 4, 5, 0, 6),
         NumberNode(0),
         NumberNode(a),
         NumberNode(1),
         ForNode("i", 8, 9, 0, 10),
         NumberNode(0),
         NumberNode(b),
         CallNode(11, <<>>),
         VarAccessNode("f") >>
    [] c = 4 -> <<
         ForNode("i", 2, 3, 0, 4),
         NumberNode(0),
         NumberNode(b),
         ListNode(<<5, 7>>),
         VarAssignNode("y", 6),
         NumberNode(0),
         WhileNode(8, 11),
         BinOpNode(9, "LT", 10),
         VarAccessNode("y"),
         NumberNode(a),
         VarAssignNode("y", 12),
         BinOpNode(13, "PLUS", 14),
         VarAccessNode("y"),
         NumberNode(1) >>
    [] OTHER -> <<
         ListNode(<<2, 4>>),
         VarAssignNode("x", 3),
         NumberNode(0),
         WhileNode(5, 8),
         BinOpNode(6, "LT", 7),
         VarAccessNode("x"),
         NumberNode(b),
         ListNode(<<9, 13>>),
         VarAssignNode("x", 10),
         BinOpNode(11, "PLUS", 12),
         VarAccessNode("x"),
         NumberNode(1),
         ForNode("j", 14, 15, 0, 16),
         NumberNode(0),
         NumberNode(a),
         NumberNode(1) >>

\* The expressions whose value an operator or a condition is given: a value
\* of every variant.  child is the node of the list element / function body.
Operands == <<"0", "1", "kweli", "uwongo", "tupu", "[]", "[1]",
              "shughuli () { 1 }", "andika">>

FunctionOperands == {8, 9}

OperandNode(k, child) ==
  CASE k = 1 -> NumberNode(0)
    [] k = 2 -> NumberNode(1)
    [] k \in {3, 4, 5, 9} -> VarAccessNode(Operands[k])
    [] k = 6 -> ListNode(<<>>)
    [] k = 7 -> ListNode(<<child>>)
    [] OTHER -> FuncDefNode("", <<>>, child)

ConditionRoots == <<"IfNode", "WhileNode">>

\* kama V { 1 } sivyo { 2 }   or   wakati V { 1 }
ConditionProg(a, b) == <<
  IF b = 1 THEN IfNode(<<2, 3>>, 4) ELSE WhileNode(2, 3),
  OperandNode(a, 5),
  NumberNode(1),
  NumberNode(2),
  NumberNode(1) >>

\* !V  or  !!V
NotProg(a, b) == <<
  UnaryOpNode("NOT", 2),
  IF b = 1 THEN OperandNode(a, 4) ELSE UnaryOpNode("NOT", 3),
  OperandNode(a, 4),
  NumberNode(1) >>

\* k = 7
\* shughuli f(n) { [ m = n, k = n, kama n < a { f(n + 1) } sivyo { 0 },
\*                   n, m, k ] }
\* f(0) ; k
RecurProg(a) == <<
  (* 1*) ListNode(<<2, 4, 17, 20>>),
  (* 2*) VarAssignNode("k", 3),
  (* 3*) NumberNode(7),
  (* 4*) FuncDefNode("f", <<"n">>, 5),
  (* 5*) ListNode(<<6, 8, 10, 26, 22, 23>>),
  (* 6*) VarAssignNode("m", 7),
  (* 7*) VarAccessNode("n"),
  (* 8*) VarAssignNode("k", 9),
  (* 9*) VarAccessNode("n"),
  (*10*) IfNode(<<11, 14>>, 21),
  (*11*) BinOpNode(12, "LT", 13),
  (*12*) VarAccessNode("n"),
  (*13*) NumberNode(a),
  (*14*) CallNode(15, <<16>>),
  (*15*) VarAccessNode("f"),
  (*16*) BinOpNode(24, "PLUS", 25),
  (*17*) CallNode(18, <<19>>),
  (*18*) VarAccessNode("f"),
  (*19*) NumberNode(0),
  (*20*) VarAccessNode("k"),
  (*21*) NumberNode(0),
  (*22*) VarAccessNode("m"),
  (*23*) VarAccessNode("k"),
  (*24*) VarAccessNode("n"),
  (*25*) NumberNode(1),
  (*26*) VarAccessNode("n") >>

ProgIds == {"closure", "dynscope", "arity", "builtinArity", "whileTrue",
            "whileCount", "for", "forDefault", "error", "binop", "if",
            "ifNull", "rebind", "unary", "hoja", "nest", "condition", "not", "recur"}

\* The literals each template is run with.
DomA(id) ==
  CASE id = "closure" -> {1, 10}
    [] id = "dynscope" -> {1, 2}
    [] id = "arity" -> 0..3
    [] id = "builtinArity" -> 0..2
    [] id = "whileCount" -> 0..MaxNum
    [] id = "for" -> {0, 3}
    [] id = "forDefault" -> {1, 2}
    [] id = "error" -> 1..Len(ErrorRoots)
    [] id \in {"binop", "if", "unary"} -> {0, 1}
    [] id = "rebind" -> {5, 6}
    [] id = "hoja" -> {1, 2}
    [] id = "recur" -> 0..2
    [] id \in {"condition", "not"} -> 1..Len(Operands)
    [] id = "nest" -> {1, maxCallStackSize - 1, maxCallStackSize}
    [] OTHER -> {0}

DomB(id) ==
  CASE id = "closure" -> {2, 5}
    [] id = "builtinArity" -> 1..Len(BuiltInNames)
    [] id \in {"for", "forDefault"} -> (-1)..MaxNum
    [] id \in {"binop", "if"} -> {0, 1}
    [] id = "rebind" -> 1..Len(RebindRoots)
    [] id = "unary" -> 1..Len(UnaryOps)
    [] id = "condition" -> 1..Len(ConditionRoots)
    [] id = "not" -> {1, 2}
    [] id = "nest" -> {2, maxCallStackSize - 1, maxCallStackSize}
    [] OTHER -> {0}

DomC(id) ==
  CASE id = "for" -> (-1)..2
    [] id = "binop" -> 1..Len(BinOps)
    [] id = "if" -> {0, 1}
    [] id = "nest" -> NestShapes
    [] OTHER -> {0}

Program(p) ==
  CASE p.id = "closure" -> ClosureProg(p.a, p.b)
    [] p.id = "dynscope" -> DynScopeProg(p.a)
    [] p.id = "arity" -> ArityProg(p.a)
    [] p.id = "builtinArity" -> BuiltInArityProg(p.a, p.b)
    [] p.id = "whileTrue" -> WhileTrueProg
    [] p.id = "whileCount" -> WhileCountProg(p.a)
    [] p.id = "for" -> ForProg(p.a, p.b, p.c)
    [] p.id = "forDefault" -> ForDefaultProg(p.a, p.b)
    [] p.id = "error" -> ErrorProg(p.a)
    [] p.id = "binop" -> BinOpProg(p.a, p.b, p.c)
    [] p.id = "if" -> IfProg(p.a, p.b, p.c)
    [] p.id = "ifNull" -> IfNullProg
    [] p.id = "rebind" -> RebindProg(p.a, p.b)
    [] p.id = "hoja" -> HojaProg(p.a)
    [] p.id = "recur" -> RecurProg(p.a)
    [] p.id = "not" -> NotProg(p.a, p.b)
    [] p.id = "condition" -> ConditionProg(p.a, p.b)
    [] p.id = "nest" -> NestProg(p.a, p.b, p.c)
    [] OTHER -> UnaryProg(p.a, p.b)

AST(n) == Program(prog)[n]

-----------------------------------------------------------------------------
(* Contexts and symbol tables.  Every Context owns one SymbolTable, so a   *)
(* table is named by its context: `parent` is the Context's parent,        *)
(* `symParent` the context whose table is the parent of this table.        *)

EmptyTable == [x \in {} |-> NoneV]

Context(displayName, parent, entryPos, symParent, symbols) ==
  [displayName |-> displayName, parent |-> parent, entryPos |-> entryPos,
   symParent |-> symParent, symbols |-> symbols]

\* SymbolTable.get: this table, then the parents; null when bound nowhere.
RECURSIVE SymGet(_, _, _)
SymGet(cs, c, name) ==
  IF name \in DOMAIN cs[c].symbols THEN cs[c].symbols[name]
  ELSE IF cs[c].symParent = 0 THEN NoneV
  ELSE SymGet(cs, cs[c].symParent, name)

\* SymbolTable.set: this table only.
SymSet(cs, c, name, v) ==
  [cs EXCEPT ![c].symbols =
     [x \in DOMAIN cs[c].symbols \cup {name} |->
        IF x = name THEN v ELSE cs[c].symbols[x]]]

GlobalCtx == 1

\* The root table before user code runs: the sentinels and the built-ins.
GlobalSymbols ==
  [x \in {"kweli", "uwongo", "tupu", "andika", "futa", "niNambari"} |->
     CASE x = "kweli" -> SWBoolean(TRUE)
       [] x = "uwongo" -> SWBoolean(FALSE)
       [] x = "tupu" -> SWNull
       [] OTHER -> SWBuiltInFunction(x)]

\* RTResult.register on the visitor's own result: the error is copied.
register(other) == [value |-> NoneV, error |-> other.error]

stamp(v, node, c) == setPosition(setContext(v, c), node)

-----------------------------------------------------------------------------
(* The call protocol of SWBaseFunction (interpreter.js).                   *)

generateNewContext(this, cs) ==
  Append(cs, Context(this.name, this.ctx, this.pos, this.ctx, EmptyTable))

\* checkArgs without its second test (too few arguments pass).
checkArgs_tooManyOnly(this, argNames, args) ==
  IF Len(args) > Len(argNames)
  THEN failure(RTError(this.pos, this.pos, "too many args passed into",
                       this.name, Len(args) - Len(argNames), this.ctx))
  ELSE success(SWNull)

checkArgs(this, argNames, args) ==
  IF Len(args) > Len(argNames)
  THEN failure(RTError(this.pos, this.pos, "too many args passed into",
                       this.name, Len(args) - Len(argNames), this.ctx))
  ELSE IF Len(args) < Len(argNames)
  THEN failure(RTError(this.pos, this.pos, "too few args passed into",
                       this.name, Len(argNames) - Len(args), this.ctx))
  ELSE success(SWNull)

RECURSIVE populateFrom(_, _, _, _, _)
populateFrom(k, argNames, args, executionContext, cs) ==
  IF k > Len(args) THEN cs
  ELSE populateFrom(k + 1, argNames, args, executionContext,
         SymSet(cs, executionContext, argNames[k],
                setContext(args[k], executionContext)))

\* populateArgs binding into the root table instead of the new one.
populateArgs_global(argNames, args, executionContext, cs) ==
  populateFrom(1, argNames, args, GlobalCtx, cs)

populateArgs(argNames, args, executionContext, cs) ==
  populateFrom(1, argNames, args, executionContext, cs)

\* The result and the contexts after it.
checkAndPopulateArgs(this, argNames, args, executionContext, cs) ==
  LET res == checkArgs(this, argNames, args)
  IN IF IsErr(res) THEN [res |-> register(res), ctxs |-> cs]
     ELSE [res |-> success(NoneV),
           ctxs |-> populateArgs(argNames, args, executionContext, cs)]

\* The history entries of a successful populateArgs.
ParamWrites(argNames, args, executionContext) ==
  [k \in 1..Len(args) |->
     [by |-> "Param", ctx |-> executionContext, name |-> argNames[k],
      value |-> setContext(args[k], executionContext)]]

\* The declared parameters of the built-ins (the arrays beside execute_*).
BuiltInArgs(name) ==
  CASE name = "andika" -> <<"value">>
    [] name = "niNambari" -> <<"value">>
    [] OTHER -> <<>>

-----------------------------------------------------------------------------
(* Frames.  op = "visit": an activation of the visitor of AST(node) in     *)
(* context ctx; op = "execute": an activation of execute(args) of v1.      *)
(* vals holds elements / args, v1..v3 and i, calls, idx the locals.        *)

Frame(op, node, c, this, args) ==
  [op |-> op, node |-> node, ctx |-> c, pc |-> "start", vals |-> args,
   v1 |-> this, v2 |-> NoneV, v3 |-> NoneV, i |-> 0, calls |-> 0, idx |-> 0]

Top == stack[Len(stack)]

Visiting(type) ==
  /\ status = "running"
  /\ Len(stack) > 0
  /\ Top.op = "visit"
  /\ AST(Top.node).type = type

Executing(kind) ==
  /\ status = "running"
  /\ Len(stack) > 0
  /\ Top.op = "execute"
  /\ Top.v1.kind = kind

\* return res: the frame is left and the caller finds res.
Return(res) ==
  /\ stack' = SubSeq(stack, 1, Len(stack) - 1)
  /\ ret' = res
  /\ status' = IF Len(stack) = 1 THEN "done" ELSE "running"

\* this.visit(node, c): the frame waits as fr, the visitor of node starts.
Descend(fr, node, c) ==
  /\ stack' = Append([stack EXCEPT ![Len(stack)] = fr],
                     Frame("visit", node, c, NoneV, <<>>))
  /\ ret' = NoRes
  /\ status' = "running"

\* valueToCall.execute(args)
Invoke(fr, this, args) ==
  /\ stack' = Append([stack EXCEPT ![Len(stack)] = fr],
                     Frame("execute", fr.node, 0, this, args))
  /\ ret' = NoRes
  /\ status' = "running"

\* An exception of the host: nothing in the evaluator catches it.
Throw ==
  /\ stack' = <<>>
  /\ ret' = NoRes
  /\ status' = "threw"

Init ==
  /\ \E id \in ProgIds : \E a \in DomA(id), b \in DomB(id), c \in DomC(id) :
       prog = [id |-> id, a |-> a, b |-> b, c |-> c]
  /\ stack = <<Frame("visit", 1, GlobalCtx, NoneV, <<>>)>>
  /\ ret = NoRes
  /\ ctxs = <<Context("<program>", 0, 0, 0, GlobalSymbols)>>
  /\ out = <<>>
  /\ status = "running"
  /\ writes = <<>>

-----------------------------------------------------------------------------
(* The visitors.                                                           *)

visitNumberNode ==
  /\ Visiting("NumberNode")
  /\ Return(success(stamp(SWNumber(AST(Top.node).num), Top.node, Top.ctx)))
  /\ UNCHANGED <<prog, ctxs, out, writes>>

visitListNode ==
  /\ Visiting("ListNode")
  /\ LET f == Top
         n == AST(f.node)
         elements == Append(f.vals, ret.value)
     IN \/ /\ f.pc = "start"
           /\ IF n.kids = <<>>
              THEN Return(success(stamp(SWList(<<>>), f.node, f.ctx)))
              ELSE Descend([f EXCEPT !.pc = "element", !.idx = 1],
                           n.kids[1], f.ctx)
        \/ /\ f.pc = "element"
           /\ IF IsErr(ret) THEN Return(register(ret))
              ELSE IF f.idx < Len(n.kids)
              THEN Descend([f EXCEPT !.vals = elements, !.idx = f.idx + 1],
                           n.kids[f.idx + 1], f.ctx)
              ELSE Return(success(stamp(SWList(elements), f.node, f.ctx)))
  /\ UNCHANGED <<prog, ctxs, out, writes>>

\* A lookup that reads the root table only.
visitVarAccessNode_globalOnly ==
  /\ Visiting("VarAccessNode")
  /\ LET f == Top
         varName == AST(f.node).name
         value == SymGet(ctxs, GlobalCtx, varName)
     IN IF value.kind = "None"
        THEN Return(failure(RTError(f.node, f.node, "is not defined",
                                    varName, 0, f.ctx)))
        ELSE Return(success(stamp(copy(value), f.node, f.ctx)))
  /\ UNCHANGED <<prog, ctxs, out, writes>>

visitVarAccessNode ==
  /\ Visiting("VarAccessNode")
  /\ LET f == Top
         varName == AST(f.node).name
         value == SymGet(ctxs, f.ctx, varName)
     IN IF value.kind = "None"
        THEN Return(failure(RTError(f.node, f.node, "is not defined",
                                    varName, 0, f.ctx)))
        ELSE Return(success(stamp(copy(value), f.node, f.ctx)))
  /\ UNCHANGED <<prog, ctxs, out, writes>>

\* One entry of the history of writes.
Write(by, c, name, v) == [by |-> by, ctx |-> c, name |-> name, value |-> v]

\* An assignment that updates the root table's binding of the name when
\* there is one.
visitVarAssignNode_outer ==
  /\ Visiting("VarAssignNode")
  /\ LET f == Top
         n == AST(f.node)
         target == IF n.name \in DOMAIN ctxs[GlobalCtx].symbols
                   THEN GlobalCtx ELSE f.ctx
     IN \/ /\ f.pc = "start"
           /\ Descend([f EXCEPT !.pc = "value"], n.kids[1], f.ctx)
           /\ UNCHANGED <<ctxs, writes>>
        \/ /\ f.pc = "value"
           /\ IF IsErr(ret)
              THEN Return(register(ret)) /\ UNCHANGED <<ctxs, writes>>
              ELSE /\ ctxs' = SymSet(ctxs, target, n.name, ret.value)
                   /\ writes' = Append(writes,
                                   Write("VarAssign", target, n.name, ret.value))
                   /\ Return(success(ret.value))
  /\ UNCHANGED <<prog, out>>

visitVarAssignNode ==
  /\ Visiting("VarAssignNode")
  /\ LET f == Top
         n == AST(f.node)
     IN \/ /\ f.pc = "start"
           /\ Descend([f EXCEPT !.pc = "value"], n.kids[1], f.ctx)
           /\ UNCHANGED <<ctxs, writes>>
        \/ /\ f.pc = "value"
           /\ IF IsErr(ret)
              THEN Return(register(ret)) /\ UNCHANGED <<ctxs, writes>>
              ELSE /\ ctxs' = SymSet(ctxs, f.ctx, n.name, ret.value)
                   /\ writes' = Append(writes,
                                   Write("VarAssign", f.ctx, n.name, ret.value))
                   /\ Return(success(ret.value))
  /\ UNCHANGED <<prog, out>>

\* The operator of a BinOpNode applied to both operand values.
BinOpDispatch(op, left, right) ==
  CASE left.kind = "None" -> OpThrow
    [] op = "PLUS" -> addedTo(left, right)
    [] op = "MUL" -> multedBy(left, right)
    [] op = "LT" -> getComparisonLT(left, right)
    [] op = "AND" -> andedBy(left, right)
    [] op = "OR" -> oredBy(left, right)
    [] OTHER -> OpRes(SWValue, NoErr)

\* A short-circuiting && : a falsy left operand is the result.
BinOpVisitRight_shortCircuit(f, n) ==
  IF n.op = "AND" /\ ~isTrue(ret.value)
  THEN Return(success(setPosition(SWBoolean(FALSE), f.node)))
  ELSE Descend([f EXCEPT !.pc = "right", !.v1 = ret.value], n.kids[2], f.ctx)

\* After the left operand returned without error: visit the right operand.
BinOpVisitRight(f, n) ==
  Descend([f EXCEPT !.pc = "right", !.v1 = ret.value], n.kids[2], f.ctx)

visitBinOpNode ==
  /\ Visiting("BinOpNode")
  /\ LET f == Top
         n == AST(f.node)
     IN \/ /\ f.pc = "start"
           /\ Descend([f EXCEPT !.pc = "left"], n.kids[1], f.ctx)
        \/ /\ f.pc = "left"
           /\ IF IsErr(ret) THEN Return(register(ret))
              ELSE BinOpVisitRight(f, n)
        \/ /\ f.pc = "right"
           /\ IF IsErr(ret) THEN Return(register(ret))
              ELSE LET r == BinOpDispatch(n.op, f.v1, ret.value)
                   IN IF r.threw THEN Throw
                      ELSE IF r.error # NoErr THEN Return(failure(r.error))
                      ELSE Return(success(setPosition(r.value, f.node)))
  /\ UNCHANGED <<prog, ctxs, out, writes>>

UnaryOpDispatch(op, number) ==
  CASE number.kind = "None" -> OpThrow
    [] op = "MINUS" -> multedBy(number, SWNumber(-1))
    [] op = "NOT" -> notted(number)
    [] OTHER -> OpRes(number, NoErr)

visitUnaryOpNode ==
  /\ Visiting("UnaryOpNode")
  /\ LET f == Top
         n == AST(f.node)
     IN \/ /\ f.pc = "start"
           /\ Descend([f EXCEPT !.pc = "operand"], n.kids[1], f.ctx)
        \/ /\ f.pc = "operand"
           /\ IF IsErr(ret) THEN Return(register(ret))
              ELSE LET r == UnaryOpDispatch(n.op, ret.value)
                   IN IF r.threw THEN Throw
                      ELSE IF r.error # NoErr THEN Return(failure(r.error))
                      ELSE Return(success(setPosition(r.value, f.node)))
  /\ UNCHANGED <<prog, ctxs, out, writes>>

\* What an IfNode returns when no case matched and there is no else case.
IfNoMatch == success(NoneV)

visitIfNode ==
  /\ Visiting("IfNode")
  /\ LET f == Top
         n == AST(f.node)
         elseCase == IF n.opt # 0
                     THEN Descend([f EXCEPT !.pc = "else"], n.opt, f.ctx)
                     ELSE Return(IfNoMatch)
     IN \/ /\ f.pc = "start"
           /\ IF n.kids = <<>> THEN elseCase
              ELSE Descend([f EXCEPT !.pc = "condition", !.idx = 1],
                           n.kids[1], f.ctx)
        \/ /\ f.pc = "condition"
           /\ IF IsErr(ret) THEN Return(register(ret))
              ELSE IF ret.value.kind = "None" THEN Throw
              ELSE IF isTrue(ret.value)
              THEN Descend([f EXCEPT !.pc = "expr"], n.kids[f.idx + 1], f.ctx)
              ELSE IF f.idx + 2 <= Len(n.kids)
              THEN Descend([f EXCEPT !.idx = f.idx + 2],
                           n.kids[f.idx + 2], f.ctx)
              ELSE elseCase
        \/ /\ f.pc \in {"expr", "else"}
           /\ IF IsErr(ret) THEN Return(register(ret))
              ELSE Return(success(ret.value))
  /\ UNCHANGED <<prog, ctxs, out, writes>>

\* The loop condition without the case of a negative step.
ForCondition_unsigned(i, endValue, stepValue) == i < endValue

\* The loop condition of a ForNode: chosen once by the sign of the step.
ForCondition(i, endValue, stepValue) ==
  IF stepValue >= 0 THEN i < endValue ELSE i > endValue

\* The guard as a comparison that lets the count pass the cap once.
CallsExhausted_over(calls) == calls > maxCallStackSize

\* The guard one iteration late.
CallsExhausted_late(calls) == calls = maxCallStackSize + 1

\* The guard against endless loops, after calls++.
CallsExhausted(calls) == calls = maxCallStackSize

\* One turn of the while (condition()) loop of visitForNode: bind the loop
\* variable, step i and visit the body, or leave the loop with the list.
ForLoop(f, n, elements, i, calls, endValue, stepValue) ==
  IF ForCondition(i, endValue.num, stepValue.num)
  THEN /\ ctxs' = SymSet(ctxs, f.ctx, n.name, SWNumber(i))
       /\ writes' = Append(writes, Write("For", f.ctx, n.name, SWNumber(i)))
       /\ Descend([f EXCEPT !.pc = "body", !.vals = elements,
                            !.i = i + stepValue.num, !.calls = calls,
                            !.v2 = endValue, !.v3 = stepValue],
                  n.kids[3], f.ctx)
  ELSE /\ UNCHANGED <<ctxs, writes>>
       /\ Return(success(stamp(SWList(elements), f.node, f.ctx)))

\* A loop that goes on counting where the loop around it stands.
ForEnter_sharedCalls(f, n, startValue, endValue, stepValue) ==
  IF "None" \in {startValue.kind, endValue.kind, stepValue.kind}
  THEN Throw /\ UNCHANGED <<ctxs, writes>>
  ELSE ForLoop(f, n, <<>>, startValue.num,
               IF Len(stack) > 1 THEN stack[Len(stack) - 1].calls ELSE 0,
               endValue, stepValue)

\* Entering the loop: startValue.value, endValue.value and stepValue.value
\* are read; a null among them is a TypeError of the host.
ForEnter(f, n, startValue, endValue, stepValue) ==
  IF "None" \in {startValue.kind, endValue.kind, stepValue.kind}
  THEN Throw /\ UNCHANGED <<ctxs, writes>>
  ELSE ForLoop(f, n, <<>>, startValue.num, 0, endValue, stepValue)

visitForNode ==
  /\ Visiting("ForNode")
  /\ LET f == Top
         n == AST(f.node)
     IN \/ /\ f.pc = "start"
           /\ Descend([f EXCEPT !.pc = "startValue"], n.kids[1], f.ctx)
           /\ UNCHANGED <<ctxs, writes>>
        \/ /\ f.pc = "startValue"
           /\ IF IsErr(ret) THEN Return(register(ret))
              ELSE Descend([f EXCEPT !.pc = "endValue", !.v1 = ret.value],
                           n.kids[2], f.ctx)
           /\ UNCHANGED <<ctxs, writes>>
        \/ /\ f.pc = "endValue"
           /\ IF IsErr(ret)
              THEN Return(register(ret)) /\ UNCHANGED <<ctxs, writes>>
              ELSE IF n.opt # 0
              THEN /\ Descend([f EXCEPT !.pc = "stepValue", !.v2 = ret.value],
                              n.opt, f.ctx)
                   /\ UNCHANGED <<ctxs, writes>>
              ELSE ForEnter(f, n, f.v1, ret.value, SWNumber(1))
        \/ /\ f.pc = "stepValue"
           \* no test of res.error here: the step is used as registered
           /\ ForEnter(f, n, f.v1, f.v2, ret.value)
        \/ /\ f.pc = "body"
           /\ LET elements == Append(f.vals, ret.value)
              IN IF IsErr(ret)
                 THEN Return(register(ret)) /\ UNCHANGED <<ctxs, writes>>
                 ELSE IF CallsExhausted(f.calls + 1)
                 THEN /\ Return(failure(RTError(f.node, f.node,
                                  "Max call stack size exceeded", "", 0, f.ctx)))
                      /\ UNCHANGED <<ctxs, writes>>
                 ELSE ForLoop(f, n, elements, f.i, f.calls + 1, f.v2, f.v3)
  /\ UNCHANGED <<prog, out>>

visitWhileNode ==
  /\ Visiting("WhileNode")
  /\ LET f == Top
         n == AST(f.node)
     IN \/ /\ f.pc = "start"
           /\ Descend([f EXCEPT !.pc = "condition"], n.kids[1], f.ctx)
        \/ /\ f.pc = "condition"
           /\ IF IsErr(ret) THEN Return(register(ret))
              ELSE IF ret.value.kind = "None" THEN Throw
              ELSE IF ~isTrue(ret.value)
              THEN Return(success(stamp(SWList(f.vals), f.node, f.ctx)))
              ELSE Descend([f EXCEPT !.pc = "body"], n.kids[2], f.ctx)
        \/ /\ f.pc = "body"
           /\ IF IsErr(ret) THEN Return(register(ret))
              ELSE IF CallsExhausted(f.calls + 1)
              THEN Return(failure(RTError(f.node, f.node,
                            "Max call stack size exceeded", "", 0, f.ctx)))
              ELSE Descend([f EXCEPT !.pc = "condition",
                                     !.vals = Append(f.vals, ret.value),
                                     !.calls = f.calls + 1],
                           n.kids[1], f.ctx)
  /\ UNCHANGED <<prog, ctxs, out, writes>>

visitFuncDefNode ==
  /\ Visiting("FuncDefNode")
  /\ LET f == Top
         n == AST(f.node)
         funcValue == stamp(SWFunction(n.name, f.node), f.node, f.ctx)
     IN /\ IF n.name # ""
           THEN /\ ctxs' = SymSet(ctxs, f.ctx, n.name, funcValue)
                /\ writes' = Append(writes,
                                Write("FuncDef", f.ctx, n.name, funcValue))
           ELSE UNCHANGED <<ctxs, writes>>
        /\ Return(success(funcValue))
  /\ UNCHANGED <<prog, out>>

\* valueToCall.execute(args), all arguments evaluated.
CallExecute(f, valueToCall, args) ==
  IF IsFunctionValue(valueToCall)
  THEN Invoke([f EXCEPT !.pc = "execute", !.v1 = valueToCall, !.vals = args],
              valueToCall, args)
  ELSE Return(register(SWValue_execute(valueToCall)))

\* The value a CallNode hands back from what execute returned.
CallReturnValue(returnValue, node, context) ==
  IF returnValue.kind = "None" THEN NoneV
  ELSE setContext(setPosition(copy(returnValue), node), context)

visitCallNode ==
  /\ Visiting("CallNode")
  /\ LET f == Top
         n == AST(f.node)
     IN \/ /\ f.pc = "start"
           /\ Descend([f EXCEPT !.pc = "callee"], n.kids[1], f.ctx)
        \/ /\ f.pc = "callee"
           /\ IF IsErr(ret) THEN Return(register(ret))
              ELSE IF ret.value.kind = "None" THEN Throw
              ELSE LET valueToCall == setPosition(copy(ret.value), f.node)
                   IN IF Len(n.kids) = 1
                      THEN CallExecute(f, valueToCall, <<>>)
                      ELSE Descend([f EXCEPT !.pc = "arg", !.idx = 2,
                                             !.v1 = valueToCall],
                                   n.kids[2], f.ctx)
        \/ /\ f.pc = "arg"
           /\ LET args == Append(f.vals, ret.value)
              IN IF IsErr(ret) THEN Return(register(ret))
                 ELSE IF f.idx < Len(n.kids)
                 THEN Descend([f EXCEPT !.vals = args, !.idx = f.idx + 1],
                              n.kids[f.idx + 1], f.ctx)
                 ELSE CallExecute(f, f.v1, args)
        \/ /\ f.pc = "execute"
           /\ IF IsErr(ret) THEN Return(register(ret))
              ELSE Return(success(CallReturnValue(ret.value, f.node, f.ctx)))
  /\ UNCHANGED <<prog, ctxs, out, writes>>

-----------------------------------------------------------------------------
(* execute(args) of the two function classes.                              *)

SWFunction_execute ==
  /\ Executing("Function")
  /\ LET f == Top
         this == f.v1
         def == AST(this.fn)
         cs == generateNewContext(this, ctxs)
         executionContext == Len(cs)
         r == checkAndPopulateArgs(this, def.params, f.vals,
                                   executionContext, cs)
     IN \/ /\ f.pc = "start"
           /\ IF this.ctx = 0 THEN Throw /\ UNCHANGED <<ctxs, writes>>
              ELSE /\ ctxs' = r.ctxs
                   /\ IF IsErr(r.res)
                      THEN Return(register(r.res)) /\ writes' = writes
                      ELSE /\ Descend([f EXCEPT !.pc = "body",
                                                !.ctx = executionContext],
                                      def.kids[1], executionContext)
                           /\ writes' = writes \o ParamWrites(def.params,
                                           f.vals, executionContext)
        \/ /\ f.pc = "body"
           /\ UNCHANGED <<ctxs, writes>>
           /\ IF IsErr(ret) THEN Return(register(ret))
              ELSE Return(success(ret.value))
  /\ UNCHANGED <<prog, out>>

\* The host handlers execute_andika, execute_futa, execute_niNambari.
BuiltInMethod(name, executionContext, cs) ==
  CASE name = "niNambari" ->
         success(SWBoolean(SymGet(cs, executionContext, "value").kind = "Number"))
    [] OTHER -> success(SWNull)

SWBuiltInFunction_execute ==
  /\ Executing("BuiltIn")
  /\ LET f == Top
         this == f.v1
         cs == generateNewContext(this, ctxs)
         executionContext == Len(cs)
         r == checkAndPopulateArgs(this, BuiltInArgs(this.name), f.vals,
                                   executionContext, cs)
     IN IF this.ctx = 0 THEN Throw /\ UNCHANGED <<ctxs, out, writes>>
        ELSE /\ ctxs' = r.ctxs
             /\ IF IsErr(r.res)
                THEN Return(register(r.res)) /\ UNCHANGED <<out, writes>>
                ELSE /\ Return(BuiltInMethod(this.name, executionContext, r.ctxs))
                     /\ writes' = writes \o ParamWrites(BuiltInArgs(this.name),
                                     f.vals, executionContext)
                     /\ out' = IF this.name = "andika"
                               THEN Append(out, Payload(SymGet(r.ctxs,
                                              executionContext, "value")))
                               ELSE out
  /\ UNCHANGED prog

-----------------------------------------------------------------------------

Next ==
  \/ visitNumberNode
  \/ visitListNode
  \/ visitVarAccessNode
  \/ visitVarAssignNode
  \/ visitBinOpNode
  \/ visitUnaryOpNode
  \/ visitIfNode
  \/ visitForNode
  \/ visitWhileNode
  \/ visitFuncDefNode
  \/ visitCallNode
  \/ SWFunction_execute
  \/ SWBuiltInFunction_execute

Spec == Init /\ [][Next]_vars

\* The evaluator is one synchronous thread: it keeps running until the
\* visit of the root returns or the host throws.
FairSpec == Spec /\ WF_vars(Next)

-----------------------------------------------------------------------------
(* Properties.                                                             *)

Popped == stack' = SubSeq(stack, 1, Len(stack) - 1)

IsLoop(fr) ==
  fr.op = "visit" /\ AST(fr.node).type \in {"ForNode", "WhileNode"}

MaxCallStackError(e, node) ==
  e.msg = "Max call stack size exceeded" /\ e.pos = node /\ e.endPos = node

\* C1: a function defined inside an activation of gen and returned keeps
\* that activation's bindings: gen(a)(b), with gen(n) returning
\* add(x) = x + n, evaluates to Number(a + b), not to an unbound-name error.
C1_ClosureKeepsBindings ==
  (status = "done" /\ prog.id = "closure") =>
     /\ ~IsErr(ret)
     /\ Payload(ret.value.elems[2]) = Payload(SWNumber(prog.a + prog.b))

\* C2: the symbol table of an activation has the table of the defining scope
\* as parent, whoever calls: f and g are defined at top level, so every
\* activation's table hangs under the root table, and f called from g's
\* activation cannot read g's parameter y: the lookup is an unbound name.
C2_ScopeChainIsLexical ==
  prog.id = "dynscope" =>
     /\ \A c \in 2..Len(ctxs) : ctxs[c].symParent = GlobalCtx
     /\ status = "done" =>
          IsErr(ret) /\ ret.error.msg = "is not defined" /\ ret.error.arg = "y"

ParamsOf(v) ==
  IF v.kind = "Function" THEN AST(v.fn).params ELSE BuiltInArgs(v.name)

C3_Mismatch ==
  /\ status = "running"
  /\ Len(stack) > 0
  /\ Top.op = "execute"
  /\ Top.pc = "start"
  /\ Len(Top.vals) # Len(ParamsOf(Top.v1))

\* C3: execute with a number of arguments other than the number of declared
\* parameters returns the arity error at the callee's position; the body or
\* handler is not started and no table gets a binding.
C3_ArityMismatch ==
  [][C3_Mismatch =>
       /\ Popped
       /\ ret'.error.msg = (IF Len(Top.vals) > Len(ParamsOf(Top.v1))
                            THEN "too many args passed into"
                            ELSE "too few args passed into")
       /\ ret'.error.arg = Top.v1.name
       /\ ret'.error.pos = Top.v1.pos
       /\ ret'.value = NoneV
       /\ out' = out
       /\ writes' = writes
       /\ SubSeq(ctxs', 1, Len(ctxs)) = ctxs
       /\ \A c \in (Len(ctxs) + 1)..Len(ctxs') : DOMAIN ctxs'[c].symbols = {}
    ]_vars

C3_Witness ==
  /\ prog.id = "arity"
  /\ prog.a = 1
  /\ ret.error.msg = "too few args passed into"
  /\ ret.error.arg = "f"
  /\ Len(ctxs) = 2
  /\ DOMAIN ctxs[2].symbols = {}

C4_Bounded ==
  \A j \in 1..Len(stack) :
     IsLoop(stack[j]) =>
        /\ stack[j].calls < maxCallStackSize
        /\ Len(stack[j].vals) = stack[j].calls

C4_CutOff ==
  (/\ status = "running"
   /\ Len(stack) > 0
   /\ IsLoop(Top)
   /\ Top.pc = "body"
   /\ ~IsErr(ret)
   /\ Top.calls + 1 = maxCallStackSize)
  => (Popped /\ MaxCallStackError(ret'.error, Top.node))

C4_Endless ==
  \/ prog.id = "whileTrue"
  \/ prog.id = "for" /\ prog.c = 0 /\ prog.a < prog.b

\* C4: a loop activation evaluates its body at most maxCallStackSize times
\* (calls counts the finished ones, one more may be running), the
\* evaluation that makes the count reach the cap ends the loop with "Max
\* call stack size exceeded" at the loop's position, and every run ends:
\* wakati kweli { 1 } and a for loop with step 0 and start < end with
\* that error.
C4_LoopsAreCutOff ==
  /\ [] C4_Bounded
  /\ [] ((status = "done" /\ C4_Endless) => MaxCallStackError(ret.error, 1))
  /\ [][C4_CutOff]_vars
  /\ <>(status # "running")

C4_Witness ==
  /\ status = "done"
  /\ prog.id = "whileTrue"
  /\ MaxCallStackError(ret.error, 1)

\* C5: after a sub-evaluation returned an error, the visitor that waits for
\* it returns the same error at once: no further visit, no write, no throw.
C5_ErrorsPropagate ==
  [][(status = "running" /\ IsErr(ret)) =>
       /\ status' # "threw"
       /\ Popped
       /\ ret'.error = ret.error
       /\ ctxs' = ctxs
       /\ writes' = writes
       /\ out' = out
    ]_vars

C6_Step ==
  Visiting("BinOpNode") =>
    LET f == Top
        n == AST(f.node)
    IN /\ f.pc \in {"start", "left", "right"}
       /\ (f.pc = "left" /\ ~IsErr(ret)) =>
             /\ Len(stack') = Len(stack) + 1
             /\ stack'[Len(stack)] = [f EXCEPT !.pc = "right", !.v1 = ret.value]
             /\ stack'[Len(stack')] = Frame("visit", n.kids[2], f.ctx, NoneV, <<>>)
       /\ (Len(stack') > Len(stack) /\ stack'[Len(stack')].node = n.kids[2]) =>
             f.pc = "left"
       /\ f.pc = "right" => Len(stack') < Len(stack)
       /\ (f.pc # "right" /\ Len(stack') < Len(stack)) =>
             IsErr(ret) /\ ret'.error = ret.error

\* C6: once the left operand of a BinOpNode returned without error the right
\* operand is visited, next and once, whatever the operator and the left
\* value; a result other than a propagated error comes only after both.
C6_BothOperandsEvaluated == [][C6_Step]_vars

C6_Witness ==
  /\ Visiting("BinOpNode")
  /\ Top.pc = "right"
  /\ AST(Top.node).op = "AND"
  /\ ~isTrue(Top.v1)
  /\ ~IsErr(ret)
  /\ \E k \in 1..Len(writes) : writes[k].name = "y"

C7_Expected ==
  IF prog.a # 0 THEN SWNumber(1)
  ELSE IF prog.b # 0 THEN SWNumber(2)
  ELSE IF prog.c # 0 THEN SWNumber(3)
  ELSE SWNull

\* C7: an IfNode yields the body of its first truthy case, else its else
\* body, else the Null value, which can be assigned and read back.
C7_IfYieldsValue ==
  status = "done" =>
     /\ prog.id = "if" =>
          ~IsErr(ret) /\ Payload(ret.value) = Payload(C7_Expected)
     /\ prog.id = "ifNull" =>
          ~IsErr(ret) /\ ret.value.elems[2].kind = "Null"

\* The number of i = start, start + step, ... that satisfy the loop
\* condition; maxCallStackSize stands for "never ends".
C8_Iterations(start, end, step) ==
  IF step > 0 THEN (IF end > start THEN (end - start + step - 1) \div step ELSE 0)
  ELSE IF step < 0
  THEN (IF start > end THEN (start - end - step - 1) \div (-step) ELSE 0)
  ELSE (IF start < end THEN maxCallStackSize ELSE 0)

C8_Frames ==
  \A j \in 1..Len(stack) :
     LET f == stack[j]
         n == AST(f.node)
         k == f.calls
         ik == f.v1.num + k * f.v3.num
     IN (f.op = "visit" /\ n.type = "ForNode" /\ f.pc = "body") =>
          /\ Len(f.vals) = k
          /\ f.i = ik + f.v3.num
          /\ (f.v3.num >= 0 /\ ik < f.v2.num) \/ (f.v3.num < 0 /\ ik > f.v2.num)
          /\ (j < Len(stack) /\ stack[j + 1].pc = "start") =>
               /\ stack[j + 1].node = n.kids[3]
               /\ stack[j + 1].ctx = f.ctx
               /\ Payload(ctxs[f.ctx].symbols[n.name]) = Payload(SWNumber(ik))

C8_Result(start, end, step) ==
  LET count == C8_Iterations(start, end, step)
  IN count < maxCallStackSize =>
       /\ ~IsErr(ret)
       /\ ret.value.kind = "List"
       /\ Len(ret.value.elems) = count
       /\ \A k \in 1..count :
            Payload(ret.value.elems[k]) = Payload(SWNumber(start + (k - 1) * step))

\* C8: the k-th body evaluation of a ForNode (k = 0, 1, ...) runs with the
\* loop variable bound to Number(start + k * step) in the loop's context,
\* while the loop condition holds of that number; a loop that stays under
\* the cap returns the list of the body values, one per iteration.
C8_ForLoopSemantics ==
  /\ C8_Frames
  /\ (status = "done" /\ prog.id = "for") => C8_Result(prog.a, prog.b, prog.c)
  /\ (status = "done" /\ prog.id = "forDefault") => C8_Result(prog.a, prog.b, 1)

C8_Witness ==
  /\ status = "done"
  /\ prog.id = "forDefault"
  /\ prog.a = 1
  /\ prog.b = 4
  /\ Len(ret.value.elems) = 3

C9_Assigns(name) ==
  {k \in 1..Len(writes) : writes[k].by = "VarAssign" /\ writes[k].name = name}

C9_Max(S) == CHOOSE k \in S : \A m \in S : m <= k

\* C9 as claimed: the access of a bound name returns the value of the last
\* VarAssignNode of that name that was evaluated.
C9_ReadsLastAssign ==
  [][Visiting("VarAccessNode") =>
       LET name == AST(Top.node).name
       IN (C9_Assigns(name) # {} /\ SymGet(ctxs, Top.ctx, name).kind # "None") =>
            /\ ~IsErr(ret')
            /\ Payload(ret'.value) =
                 Payload(writes[C9_Max(C9_Assigns(name))].value)
    ]_vars

C9_Stores(c, name) ==
  {k \in 1..Len(writes) : writes[k].ctx = c /\ writes[k].name = name}

C9_Holds(c, name) ==
  \/ C9_Stores(c, name) # {}
  \/ c = GlobalCtx /\ name \in DOMAIN GlobalSymbols

C9_Stored(c, name) ==
  IF C9_Stores(c, name) # {} THEN writes[C9_Max(C9_Stores(c, name))].value
  ELSE GlobalSymbols[name]

RECURSIVE C9_Nearest(_, _)
C9_Nearest(c, name) ==
  IF c = 0 THEN 0
  ELSE IF C9_Holds(c, name) THEN c
  ELSE C9_Nearest(ctxs[c].symParent, name)

\* C9, amended: the access returns a copy of what was stored last under the
\* name in the nearest table, from the context's own table up its parents,
\* that holds the name, whichever of VarAssignNode, the ForNode's loop
\* variable, a named FuncDefNode or a parameter binding stored it; it fails
\* with "is not defined" when no table holds the name or null was stored.
C9_ReadsLastStore ==
  [][Visiting("VarAccessNode") =>
       LET name == AST(Top.node).name
           t == C9_Nearest(Top.ctx, name)
       IN /\ Popped
          /\ IF t = 0 \/ C9_Stored(t, name).kind = "None"
             THEN /\ ret'.error.msg = "is not defined"
                  /\ ret'.error.arg = name
                  /\ ret'.error.pos = Top.node
             ELSE /\ ~IsErr(ret')
                  /\ Payload(ret'.value) = Payload(C9_Stored(t, name))
                  /\ ret'.value.pos = Top.node
                  /\ ret'.value.ctx = Top.ctx
    ]_vars

C9_Witness ==
  /\ status = "done"
  /\ prog.id = "rebind"
  /\ prog.b = 1
  /\ ~IsErr(ret)
  /\ Payload(ret.value.elems[3]) = Payload(SWNumber(1))
  /\ Payload(writes[C9_Max(C9_Assigns("x"))].value) = Payload(SWNumber(prog.a))

\* C10 as claimed: the root table changes only in the step of a
\* VarAssignNode evaluated in the global context.
C10_OnlyAssignWritesGlobal ==
  [][ctxs'[GlobalCtx].symbols # ctxs[GlobalCtx].symbols =>
       /\ Visiting("VarAssignNode")
       /\ Top.ctx = GlobalCtx
    ]_vars

\* C10, amended: the root table changes only in the step of a VarAssignNode,
\* of a named FuncDefNode or of a ForNode (its loop variable) evaluated in
\* the global context; calls, parameter binding, while loops and all that is
\* evaluated in a function activation leave it as it is.
C10_GlobalWrittenAtTopLevelOnly ==
  [][ctxs'[GlobalCtx].symbols # ctxs[GlobalCtx].symbols =>
       /\ status = "running"
       /\ Top.op = "visit"
       /\ Top.ctx = GlobalCtx
       /\ \/ AST(Top.node).type = "VarAssignNode"
          \/ AST(Top.node).type = "ForNode"
          \/ AST(Top.node).type = "FuncDefNode" /\ AST(Top.node).name # ""
    ]_vars

C10_Witness ==
  /\ status = "done"
  /\ prog.id = "rebind"
  /\ prog.b = 3
  /\ Len(ctxs) = 2
  /\ Payload(ctxs[2].symbols["x"]) = Payload(SWNumber(9))
  /\ Payload(ctxs[GlobalCtx].symbols["x"]) = Payload(SWNumber(prog.a))

\* C11: while the body of a called function runs, __hoja is bound in the
\* activation's own table to a List of the arguments of this call, in
\* order; shughuli f(p) { __hoja } ; f(a) evaluates to the list [a].
C11_HojaBound ==
  /\ \A k \in 1..Len(stack) :
       (stack[k].op = "execute" /\ stack[k].pc = "body") =>
          LET t == ctxs[stack[k].ctx].symbols
          IN /\ "__hoja" \in DOMAIN t
             /\ Payload(t["__hoja"]) = Payload(SWList(stack[k].vals))
  /\ (status = "done" /\ prog.id = "hoja") =>
       /\ ~IsErr(ret)
       /\ Payload(ret.value.elems[2]) = Payload(SWList(<<SWNumber(prog.a)>>))

C12_Outer(shape) == <<1, 2, 7, 1, 4>>[shape]

C12_Inner(shape) == <<4, 6, 3, 7, 13>>[shape]

\* The loop of a "nest" program that reaches the cap first, 0 if none does.
C12_FirstCut(a, b, shape) ==
  IF shape = 2
  THEN (IF b = maxCallStackSize THEN C12_Outer(shape)
        ELSE IF a = maxCallStackSize THEN C12_Inner(shape) ELSE 0)
  ELSE (IF a = maxCallStackSize THEN C12_Inner(shape)
        ELSE IF b = maxCallStackSize THEN C12_Outer(shape) ELSE 0)

C12_Own ==
  \A j \in 1..Len(stack) :
     IsLoop(stack[j]) => stack[j].calls = Len(stack[j].vals)

C12_Step ==
  /\ Len(stack') > Len(stack) => stack'[Len(stack')].calls = 0
  /\ \A j \in 1..Len(stack) :
       (j <= Len(stack') /\ IsLoop(stack[j])
          /\ stack'[j].calls # stack[j].calls) =>
            /\ j = Len(stack)
            /\ stack[j].pc = "body"
            /\ ~IsErr(ret)
            /\ stack'[j].calls = stack[j].calls + 1

C12_Result ==
  (status = "done" /\ prog.id = "nest") =>
     LET cut == C12_FirstCut(prog.a, prog.b, prog.c)
     IN IF cut = 0 THEN ~IsErr(ret) ELSE MaxCallStackError(ret.error, cut)

\* C12: the counter of a loop activation starts at 0, counts the body
\* results this activation has collected, and moves only when this
\* activation's own body returns: loops nested in it, run before it or run
\* by a function it calls leave it alone.  Two loops of fewer than
\* maxCallStackSize iterations each end without the cap's error, however
\* many body evaluations they make together.
C12_CounterPerActivation ==
  /\ [] C12_Own
  /\ [] C12_Result
  /\ [][C12_Step]_vars

C12_Witness ==
  /\ status = "done"
  /\ prog.id = "nest"
  /\ prog.c = 3
  /\ prog.a = maxCallStackSize - 1
  /\ prog.b = maxCallStackSize - 1
  /\ prog.a * prog.b > maxCallStackSize
  /\ ~IsErr(ret)
  /\ Len(ret.value.elems[2].elems) = prog.b
  /\ \A k \in 1..prog.b : Len(ret.value.elems[2].elems[k].elems) = prog.a

\* C13: a condition whose value is a user or built-in function is true:
\* kama V { 1 } sivyo { 2 } yields 1, and wakati V { 1 } runs its body
\* until the cap cuts it off.
C13_FunctionsAreTruthy ==
  /\ (IsFunctionValue(ret.value) /\ Len(stack) > 0
        /\ AST(Top.node).type \in {"IfNode", "WhileNode"}) =>
       isTrue(ret.value)
  /\ (status = "done" /\ prog.id = "condition"
        /\ prog.a \in FunctionOperands) =>
       IF ConditionRoots[prog.b] = "IfNode"
       THEN ~IsErr(ret) /\ Payload(ret.value) = Payload(SWNumber(1))
       ELSE MaxCallStackError(ret.error, 1)

\* The truthiness of the value of Operands[k]: non-zero numbers, kweli,
\* non-empty lists and functions are true.
C14_Truthy(k) == k \in {2, 3, 7} \cup FunctionOperands

\* C14: !V is Boolean(not V.isTrue) and !!V is Boolean(V.isTrue) for a value
\* V of any variant, functions included: a normal result, no error and no
\* exception of the host.
C14_NotIsTotal ==
  prog.id = "not" =>
     /\ status # "threw"
     /\ status = "done" =>
          /\ ~IsErr(ret)
          /\ Payload(ret.value) =
               Payload(SWBoolean(IF prog.b = 1 THEN ~C14_Truthy(prog.a)
                                 ELSE C14_Truthy(prog.a)))

\* The loop of a one-loop program, and the number of body evaluations after
\* which its condition is false (maxCallStackSize: not before the cap).
C15_Loop == IF prog.id = "whileCount" THEN 4 ELSE 1

C15_Needed ==
  CASE prog.id = "whileCount" -> prog.a
    [] prog.id = "for" -> C8_Iterations(prog.a, prog.b, prog.c)
    [] OTHER -> C8_Iterations(prog.a, prog.b, 1)

C15_ListOf(res) ==
  IF prog.id = "whileCount" THEN res.value.elems[2] ELSE res.value

C15_Result ==
  (status = "done" /\ prog.id \in {"whileCount", "for", "forDefault"}) =>
     IF C15_Needed < maxCallStackSize
     THEN /\ ~IsErr(ret)
          /\ C15_ListOf(ret).kind = "List"
          /\ Len(C15_ListOf(ret).elems) = C15_Needed
     ELSE MaxCallStackError(ret.error, C15_Loop)

\* A loop activation hands back its list only from a false condition, with
\* fewer than maxCallStackSize body results in it.
C15_Returns ==
  (/\ status = "running"
   /\ Len(stack) > 0
   /\ IsLoop(Top)
   /\ Popped
   /\ ~IsErr(ret')) =>
     /\ ~IsErr(ret)
     /\ ret'.value.kind = "List"
     /\ Len(ret'.value.elems) < maxCallStackSize
     /\ IF AST(Top.node).type = "WhileNode"
        THEN Top.pc = "condition" /\ ~isTrue(ret.value)
             /\ ret'.value.elems = Top.vals
        ELSE \/ Top.pc = "body" /\ Top.calls + 1 < maxCallStackSize
                /\ ~ForCondition(Top.i, Top.v2.num, Top.v3.num)
                /\ ret'.value.elems = Append(Top.vals, ret.value)
             \/ Top.pc \in {"endValue", "stepValue"}
                /\ ret'.value.elems = <<>>

\* The body result that brings the count to the cap ends the loop with the
\* error, whatever the condition would say next.
C15_Cut ==
  (/\ status = "running"
   /\ Len(stack) > 0
   /\ IsLoop(Top)
   /\ Top.pc = "body"
   /\ ~IsErr(ret)
   /\ Len(Top.vals) + 1 >= maxCallStackSize) =>
     /\ Popped
     /\ IsErr(ret')
     /\ MaxCallStackError(ret'.error, Top.node)
     /\ ctxs' = ctxs

\* C15: with error-free bodies a loop returns its list exactly when its
\* condition turns false after fewer than maxCallStackSize body
\* evaluations; a loop whose condition would be false right after the
\* maxCallStackSize-th body evaluation fails with "Max call stack size
\* exceeded", the count being tested after the body and before the
\* condition.
C15_ListOnlyUnderTheCap ==
  /\ [] C15_Result
  /\ [][C15_Returns]_vars
  /\ [][C15_Cut]_vars

C15_Witness ==
  /\ status = "done"
  /\ prog.id = "whileCount"
  /\ prog.a = maxCallStackSize
  /\ MaxCallStackError(ret.error, 4)
  /\ ctxs[GlobalCtx].symbols["x"].num = prog.a

\* The names bound in some table before or after the step.
C16_Names ==
  UNION ({DOMAIN ctxs[c].symbols : c \in 1..Len(ctxs)}
         \cup {DOMAIN ctxs'[c].symbols : c \in 1..Len(ctxs')})

\* The contexts in which a step may bind: the one the running visitor
\* evaluates in, and the one execute creates in this step.
C16_Own(c) ==
  \/ c > Len(ctxs)
  \/ Len(stack) > 0 /\ Top.op = "visit" /\ Top.ctx = c

C16_Step ==
  /\ SubSeq(ctxs', 1, Len(ctxs)) # ctxs =>
       \E c \in 1..Len(ctxs) :
          /\ C16_Own(c)
          /\ \A d \in (1..Len(ctxs)) \ {c} : ctxs'[d] = ctxs[d]
  /\ (Len(stack) > 0 /\ Top.op = "execute" /\ Top.pc = "start"
        /\ ~IsErr(ret') /\ status' = "running") =>
       /\ Len(ctxs') = Len(ctxs) + 1
       /\ DOMAIN ctxs'[Len(ctxs')].symbols =
            {ParamsOf(Top.v1)[k] : k \in 1..Len(ParamsOf(Top.v1))}
       /\ Len(stack') > Len(stack) => stack'[Len(stack')].ctx = Len(ctxs')
  /\ \A j \in 1..Len(stack) :
       (stack[j].op = "visit" /\ ~C16_Own(stack[j].ctx)) =>
          \A name \in C16_Names :
             SymGet(ctxs', stack[j].ctx, name) = SymGet(ctxs, stack[j].ctx, name)

\* The list an activation f(n) of the "recur" program returns.
RECURSIVE C16_Expected(_, _)
C16_Expected(n, a) ==
  SWList(<<SWNumber(n), SWNumber(n),
           IF n < a THEN C16_Expected(n + 1, a) ELSE SWNumber(0),
           SWNumber(n), SWNumber(n), SWNumber(n)>>)

C16_Result ==
  (status = "done" /\ prog.id = "recur") =>
     /\ ~IsErr(ret)
     /\ Payload(ret.value.elems[3]) = Payload(C16_Expected(0, prog.a))
     /\ Payload(ret.value.elems[4]) = Payload(SWNumber(7))
     /\ DOMAIN ctxs[GlobalCtx].symbols = DOMAIN GlobalSymbols \cup {"k", "f"}

\* C16: execute binds the parameters in a table created for this
\* activation, and a step binds only in the table of the context it
\* evaluates in: what any waiting caller reads under any name stays as it
\* was while a callee runs, a recursive activation with the same parameter
\* and variable names included, so it is the same after the call.
C16_ActivationsHaveOwnTables ==
  /\ [] C16_Result
  /\ [][C16_Step]_vars

C16_Witness ==
  /\ status = "done"
  /\ prog.id = "recur"
  /\ prog.a = 2
  /\ Len(ctxs) = 4
  /\ \A c \in 2..4 : Payload(ctxs[c].symbols["n"]) = Payload(SWNumber(c - 2))
  /\ \A c \in 2..4 : Payload(ctxs[c].symbols["k"]) = Payload(SWNumber(c - 2))
  /\ Payload(ctxs[GlobalCtx].symbols["k"]) = Payload(SWNumber(7))

====
